---- MODULE Spec2Model ----
(***************************************************************************)
(* The federated-learning pipeline builder of cogflow's KubeflowPlugin:    *)
(* create_fl_pipeline (signature merge), fl_pipeline_func (graph           *)
(* construction), create_service / delete_service (the endpoint's          *)
(* lifecycle) and the execution of the composed graph by the orchestrator, *)
(* with the two waiting loops of the library: get_served_model_url (the    *)
(* retried readiness probe of a served model) and the status polling of    *)
(* cogflow.create_run_from_pipeline_func.                                  *)
(***************************************************************************)
EXTENDS Integers, Sequences, FiniteSets, TLC

VARIABLES
    fl_client,      \* the client callable's parameters, in declaration order
    fl_server,      \* the server callable's parameters, in declaration order
    server_wrapped, \* fl_server was built by create_fl_component_from_func
    connectors,     \* the caller's connector list
    node_enforce,   \* the enforcement flag given to create_fl_pipeline
    pc,             \* where the composition stands
    error,          \* the exception that ended the last operation, or NoError
    client_extra,   \* closure of create_fl_pipeline
    server_extra,   \* closure of create_fl_pipeline
    sig_params,     \* the parameter list pipeline_sig is built from
    call_args,      \* positional arguments of the invocation of fl_pipeline_func
    call_kwargs,    \* keyword arguments of the invocation of fl_pipeline_func
    graph,          \* the ops fl_pipeline_func created, in creation order
    uid,            \* the orchestrator's {{workflow.uid}} of the run
    status,         \* the run: each op's phase
    cancelled,      \* the run was terminated by its user
    services,       \* names of the service records in the namespace
    svc_result,     \* outcome of the last create_service / delete_service
    runs,           \* how many times each op was started in the run
    readiness,      \* a call of get_served_model_url: its retry loop
    polling,        \* a call of cogflow.create_run_from_pipeline_func: its loop
    peer,           \* another run of the same graph in the same namespace
    composed_with   \* the connector list as create_fl_pipeline was given it

vars == <<fl_client, fl_server, server_wrapped, connectors, node_enforce, pc,
          error, client_extra, server_extra, sig_params, call_args,
          call_kwargs, graph, uid, status, cancelled, services, svc_result,
          runs, readiness, polling, peer, composed_with>>

-----------------------------------------------------------------------------
(* Bounds of the model.                                                    *)

\* most extra parameters the two callables declare together
MaxExtras == 3
\* most connectors in the caller's list
MaxConnectors == 2
\* most positional arguments of an invocation
MaxPositional == 2

-----------------------------------------------------------------------------
(* Values.                                                                 *)

Empty == "inspect._empty"
None == "None"
NoError == "ok"
Missing == "<no attribute>"

POSITIONAL_OR_KEYWORD == "POSITIONAL_OR_KEYWORD"
KEYWORD_ONLY == "KEYWORD_ONLY"
VAR_POSITIONAL == "VAR_POSITIONAL"
VAR_KEYWORD == "VAR_KEYWORD"

Param(n, k, d, a) == [name |-> n, kind |-> k, default |-> d, annotation |-> a]

\* The mandatory parameters
client_req == {"server_address", "local_data_connector"}

server_req == {"number_of_iterations"}

\* no call of get_served_model_url is under way
NotWaiting ==
    [pc |-> "idle", name |-> None, attempt_number |-> 0, probes |-> 0,
     not_ready |-> 0, sleeps |-> <<>>, outcome |-> None, address |-> None,
     result |-> None, error |-> NoError]

\* no call of cogflow.create_run_from_pipeline_func is under way
NotPolling ==
    [pc |-> "idle", run_id |-> None, run_status |-> None, seen |-> None,
     queries |-> 0, sleeps |-> <<>>, first_terminal |-> 0, printed |-> None,
     result |-> None, error |-> NoError, faulted |-> FALSE]

\* no other run of the graph
NoPeer == [uid |-> None, phase |-> "none"]

-----------------------------------------------------------------------------
(* Helpers over sequences.                                                 *)

Range(s) == {s[i] : i \in 1..Len(s)}

Names(params) == [i \in 1..Len(params) |-> params[i].name]

IsInjective(s) == \A i, j \in 1..Len(s) : s[i] = s[j] => i = j

\* the position of the first occurrence of x in s (0 when there is none)
IndexOf(s, x) ==
    IF x \in Range(s) THEN CHOOSE i \in 1..Len(s) :
                             s[i] = x /\ \A j \in 1..(i - 1) : s[j] # x
    ELSE 0

\* dict[k] = v
Put(d, k, v) == [x \in (DOMAIN d) \cup {k} |-> IF x = k THEN v ELSE d[x]]

EmptyDict == [x \in {} |-> None]

-----------------------------------------------------------------------------
(* create_fl_pipeline: the signature merge.                                *)

\* only consider real kw/positional params, skip VAR_POSITIONAL and VAR_KEYWORD
valid_param_names(sig) ==
    Names(SelectSeq(sig, LAMBDA p :
                      p.kind \in {POSITIONAL_OR_KEYWORD, KEYWORD_ONLY}))

\* a faulty variant of ClientExtra: the mandatory names are not left out

ClientExtraWithRequired(client_sig) == valid_param_names(client_sig)

ClientExtra(client_sig) ==
    SelectSeq(valid_param_names(client_sig), LAMBDA p : p \notin client_req)

ServerExtra(server_sig) ==
    SelectSeq(valid_param_names(server_sig), LAMBDA p : p \notin server_req)

\* a faulty variant of DictFromKeys: nothing is removed
DictFromKeysKeepAll(s) == s

\* list(dict.fromkeys(s)): the keys of s in order of first insertion
RECURSIVE DictFromKeys(_)
DictFromKeys(s) ==
    IF s = <<>> THEN <<>>
    ELSE LET front == DictFromKeys(SubSeq(s, 1, Len(s) - 1))
             last == s[Len(s)]
         IN  IF last \in Range(front) THEN front ELSE Append(front, last)

\* a faulty variant of ExtraParams: the server's extras are listed first
ExtraParamsServerFirst(client_sig, server_sig) ==
    DictFromKeys(ServerExtra(server_sig) \o ClientExtra(client_sig))

ExtraParams(client_sig, server_sig) ==
    DictFromKeys(ClientExtra(client_sig) \o ServerExtra(server_sig))

\* sig.parameters.get(name, dflt): looks among ALL the parameters of sig
ParametersGet(sig, name, dflt) ==
    IF name \in Range(Names(sig)) THEN sig[IndexOf(Names(sig), name)] ELSE dflt

\* a faulty variant of MergedParam: the server's declaration is looked up first

MergedParamServerFirst(client_sig, server_sig, name) ==
    LET param == ParametersGet(server_sig, name,
                               ParametersGet(client_sig, name, None))
        default == IF param.default # Empty THEN param.default ELSE Empty
        ann == IF param.annotation # Empty THEN param.annotation ELSE None
    IN  Param(name, POSITIONAL_OR_KEYWORD, default, ann)

\* pick whichever component declares it, preserving defaults & annotations
MergedParam(client_sig, server_sig, name) ==
    LET param == ParametersGet(client_sig, name,
                               ParametersGet(server_sig, name, None))
        default == IF param.default # Empty THEN param.default ELSE Empty
        ann == IF param.annotation # Empty THEN param.annotation ELSE None
    IN  Param(name, POSITIONAL_OR_KEYWORD, default, ann)

SigParams(client_sig, server_sig) ==
    LET extra_params == ExtraParams(client_sig, server_sig)
    IN  <<Param("number_of_iterations", POSITIONAL_OR_KEYWORD, Empty, "int")>>
        \o [i \in 1..Len(extra_params) |->
              MergedParam(client_sig, server_sig, extra_params[i])]

\* inspect.Signature(parameters=...) validates its parameters: all of them are
\* POSITIONAL_OR_KEYWORD here, so it raises ValueError for a parameter without
\* default after one with a default, and for a duplicate name
SignatureError(parameters) ==
    IF \E i, j \in 1..Len(parameters) :
          i < j /\ parameters[i].default # Empty /\ parameters[j].default = Empty
    THEN "ValueError: non-default argument follows default argument"
    ELSE IF ~IsInjective(Names(parameters))
    THEN "ValueError: duplicate parameter name"
    ELSE NoError

create_fl_pipeline ==
    /\ pc = "start"
    /\ LET params == SigParams(fl_client, fl_server)
           raised == SignatureError(params)
       IN  /\ client_extra' = ClientExtra(fl_client)
           /\ server_extra' = ServerExtra(fl_server)
           /\ sig_params' = params
           /\ error' = raised
           /\ pc' = IF raised = NoError THEN "composed" ELSE "compose_error"
    /\ composed_with' = connectors
    /\ UNCHANGED <<readiness, polling, peer>>
    /\ UNCHANGED <<fl_client, fl_server, server_wrapped, connectors,
                   node_enforce, call_args, call_kwargs, graph, uid, status,
                   cancelled, services, svc_result, runs>>
-----------------------------------------------------------------------------
(* fl_pipeline_func: binding the arguments and creating the ops.           *)

\* Signature.bind_partial(*args, **kwargs) over POSITIONAL_OR_KEYWORD
\* parameters: the bound arguments, or the TypeError it raises
BindError(parameters, args, kwargs) ==
    IF Len(args) > Len(parameters)
    THEN "TypeError: too many positional arguments"
    ELSE IF \E i \in 1..Len(args) : parameters[i].name \in DOMAIN kwargs
    THEN "TypeError: multiple values for argument"
    ELSE IF \E k \in DOMAIN kwargs : k \notin Range(Names(parameters))
    THEN "TypeError: got an unexpected keyword argument"
    ELSE NoError

BindPartial(parameters, args, kwargs) ==
    [k \in {parameters[i].name : i \in 1..Len(args)} \cup DOMAIN kwargs |->
       IF k \in DOMAIN kwargs THEN kwargs[k]
       ELSE args[IndexOf(Names(parameters), k)]]

\* BoundArguments.apply_defaults(): a parameter left unbound gets its default;
\* one without default stays unbound (the binding was partial)
ApplyDefaults(parameters, arguments) ==
    [k \in (DOMAIN arguments) \cup
           {parameters[i].name : i \in {j \in 1..Len(parameters) :
                                          parameters[j].default # Empty}} |->
       IF k \in DOMAIN arguments THEN arguments[k]
       ELSE parameters[IndexOf(Names(parameters), k)].default]

\* args_map[k] of a name that was not bound
LookupError(args_map, sextra, cextra) ==
    IF \E k \in {"number_of_iterations"} \cup Range(sextra) \cup Range(cextra) :
          k \notin DOMAIN args_map
    THEN "KeyError"
    ELSE NoError

\* a faulty variant of Kwargs: every bound extra is forwarded
KwargsAll(args_map, extra) ==
    [k \in (DOMAIN args_map) \ {"number_of_iterations"} |-> args_map[k]]

\* {k: args_map[k] for k in extra}
Kwargs(args_map, extra) == [k \in Range(extra) |-> args_map[k]]

\* generate service name with run id later at runtime it will replaced by run id
srv_name == "flserver-{{workflow.uid}}"

\* the reference to an op's output
OutputOf(op_name) == "{{" \o op_name \o ".output}}"

Op(n, f, a) ==
    [name |-> n, func |-> f, args |-> a, dependent_names |-> {},
     pod_labels |-> EmptyDict, node_selector |-> EmptyDict,
     display_name |-> None, group |-> "pipeline", is_exit_handler |-> FALSE]

\* op.after(other)
After(op, other) ==
    [op EXCEPT !.dependent_names = @ \cup {other.name}]

\* a faulty variant of AddPodLabel: a label the op already has is kept

AddPodLabelIfAbsent(op, n, v) ==
    IF n \in DOMAIN op.pod_labels THEN op
    ELSE [op EXCEPT !.pod_labels = Put(@, n, v)]

\* op.add_pod_label(name, value)
AddPodLabel(op, n, v) == [op EXCEPT !.pod_labels = Put(@, n, v)]

\* op.add_node_selector_constraint(label_name, value)
AddNodeSelectorConstraint(op, n, v) ==
    [op EXCEPT !.node_selector = Put(@, n, v)]

\* op.set_display_name(name)
SetDisplayName(op, n) == [op EXCEPT !.display_name = n]

\* an op created inside `with dsl.ExitHandler(...)` belongs to its group
InExitHandler(op) == [op EXCEPT !.group = "exit_handler"]

\* dsl.ExitHandler(exit_op)
ExitOp(op) == [op EXCEPT !.is_exit_handler = TRUE]

\* setup_task = setup_links(name=srv_name)
SetupTask == Op("setup_links", "setup_links_func", [name |-> srv_name])

\* cleanup_task = release_links(name=srv_name), made the exit handler's op
CleanupTask ==
    ExitOp(Op("release_links", "release_links_func", [name |-> srv_name]))

\* fl_server(...) where fl_server came from create_fl_component_from_func
\* already carries the pod label that wrapper attached
FlServerOp(a, wrapped) ==
    LET op == Op("fl_server", "fl_server", a)
    IN  IF wrapped
        THEN AddPodLabel(op, "app", "fl-server-{{workflow.uid}}")
        ELSE op

\* a faulty variant of ServerDependsOn: the server op is not ordered
ServerDependsOnNothing(op, setup_task) == op

ServerDependsOn(op, setup_task) == After(op, setup_task)

\* server_task: started after setup_task, labelled with the service's name
ServerTask(number_of_iterations, server_kwargs, setup_task, wrapped) ==
    LET a == Put(server_kwargs, "number_of_iterations", number_of_iterations)
        op == ServerDependsOn(InExitHandler(FlServerOp(a, wrapped)), setup_task)
    IN  AddPodLabel(op, "app", srv_name)

\* getattr(connector, "region", "")
RegionOf(connector) ==
    IF connector.region = Missing THEN "" ELSE connector.region

\* a faulty variant of Constrain: the flag is ignored
ConstrainAlways(op, enforce, region) ==
    AddNodeSelectorConstraint(op, "region", region)

\* only add node selector if enforcement is enabled
Constrain(op, enforce, region) ==
    IF enforce THEN AddNodeSelectorConstraint(op, "region", region) ELSE op

\* the body of `for connector in connectors`, for the i-th connector
ClientOp(i, connector, client_kwargs, setup_task, enforce) ==
    LET a == Put(Put(client_kwargs, "server_address", OutputOf(setup_task.name)),
                 "local_data_connector", connector.link)
        op == After(InExitHandler(
                      Op("fl_client-" \o ToString(i), "fl_client", a)),
                    setup_task)
        region == RegionOf(connector)
    IN  SetDisplayName(Constrain(op, enforce, region), "client:" \o region)

\* a faulty variant of LoopOver: the loop goes over the connectors in reverse
LoopOverReversed(conns) ==
    [i \in 1..Len(conns) |-> conns[Len(conns) + 1 - i]]

\* the connectors the loop of fl_pipeline_func goes over
LoopOver(conns) == conns

\* the ops of one invocation, in the order they are created; enforce is
\* _node_enforce, bound to node_enforce when fl_pipeline_func is defined
\* (pipeline_sig does not list it)
BuildGraph(args_map, sextra, cextra, conns, enforce, wrapped) ==
    LET server_kwargs == Kwargs(args_map, sextra)
        client_kwargs == Kwargs(args_map, cextra)
        over == LoopOver(conns)
    IN  <<SetupTask, CleanupTask,
          ServerTask(args_map["number_of_iterations"], server_kwargs,
                     SetupTask, wrapped)>>
        \o [i \in 1..Len(over) |->
              ClientOp(i, over[i], client_kwargs, SetupTask, enforce)]

\* the positional value given at position i, the keyword value given for k
PosValue(i) == "arg" \o ToString(i)

KwValue(k) == "kw:" \o k

\* what one call fl_pipeline_func(*args, **kwargs) does: the exception it
\* raises, or the ops it creates
fl_pipeline_func(args, kwargs) ==
    LET bind_raised == BindError(sig_params, args, kwargs)
        args_map == ApplyDefaults(sig_params,
                                  BindPartial(sig_params, args, kwargs))
        key_raised == LookupError(args_map, server_extra, client_extra)
    IN  IF bind_raised # NoError THEN [raised |-> bind_raised, ops |-> <<>>]
        ELSE IF key_raised # NoError THEN [raised |-> key_raised, ops |-> <<>>]
        ELSE [raised |-> NoError,
              ops |-> BuildGraph(args_map, server_extra, client_extra,
                                 connectors, node_enforce, server_wrapped)]

\* a caller invokes the composed pipeline function
Invoke ==
    /\ pc = "composed"
    /\ \E n \in 0..MaxPositional :
         \E K \in SUBSET (Range(Names(sig_params)) \cup {"unknown"}) :
           LET args == [i \in 1..n |-> PosValue(i)]
               kwargs == [k \in K |-> KwValue(k)]
               res == fl_pipeline_func(args, kwargs)
           IN  /\ call_args' = args
               /\ call_kwargs' = kwargs
               /\ error' = res.raised
               /\ graph' = res.ops
               /\ pc' = IF res.raised = NoError THEN "built" ELSE "invoke_error"
    /\ UNCHANGED <<readiness, polling, peer, composed_with>>
    /\ UNCHANGED <<fl_client, fl_server, server_wrapped, connectors,
                   node_enforce, client_extra, server_extra, sig_params, uid,
                   status, cancelled, services, svc_result, runs>>

-----------------------------------------------------------------------------
(* create_service / delete_service against the cluster API.                *)

\* what a call of the cluster API can end with, besides its normal answer:
\* a failure the API server reports (an ApiException), or a failure below it
\* (urllib3's MaxRetryError when the server cannot be reached), which is no
\* ApiException
ApiFaults == {NoError, "ApiException(500)", "MaxRetryError"}

IsApiException(e) ==
    e \in {"ApiException(409)", "ApiException(404)", "ApiException(500)"}

\* CoreV1Api.create_namespaced_service: 409 Conflict when the name is taken
create_namespaced_service(svcs, name, fault) ==
    IF fault # NoError THEN [raised |-> fault, services |-> svcs]
    ELSE IF name \in svcs
    THEN [raised |-> "ApiException(409)", services |-> svcs]
    ELSE [raised |-> NoError, services |-> svcs \cup {name}]

\* CoreV1Api.delete_namespaced_service: 404 Not Found when there is none
delete_namespaced_service(svcs, name, fault) ==
    IF fault # NoError THEN [raised |-> fault, services |-> svcs]
    ELSE IF name \notin svcs
    THEN [raised |-> "ApiException(404)", services |-> svcs]
    ELSE [raised |-> NoError, services |-> svcs \ {name}]

\* a faulty variant of CreateHandler: the failure is printed, not raised

CreateHandlerPrinting(e) ==
    IF IsApiException(e) THEN NoError ELSE e

\* the except clause of create_service
CreateHandler(e) ==
    IF IsApiException(e) THEN "RuntimeError" ELSE e

\* the except clause of delete_service
DeleteHandler(e) ==
    IF IsApiException(e) THEN NoError ELSE e

create_service(svcs, name, fault) ==
    LET r == create_namespaced_service(svcs, name, fault)
        raised == CreateHandler(r.raised)
    IN  [op |-> "create_service", name |-> name, api |-> r.raised,
         raised |-> raised,
         returned |-> IF raised = NoError THEN name ELSE None,
         logged |-> FALSE,
         services |-> r.services]

delete_service(svcs, name, fault) ==
    LET r == delete_namespaced_service(svcs, name, fault)
        raised == DeleteHandler(r.raised)
    IN  [op |-> "delete_service", name |-> name, api |-> r.raised,
         raised |-> raised,
         returned |-> None,
         logged |-> IsApiException(r.raised),
         services |-> r.services]

\* what a call leaves in svc_result
Outcome(r) ==
    [op |-> r.op, name |-> r.name, api |-> r.api, raised |-> r.raised,
     returned |-> r.returned, logged |-> r.logged]

NoCall ==
    [op |-> None, name |-> None, api |-> NoError, raised |-> NoError,
     returned |-> None, logged |-> FALSE]

Uids == {"u1", "u2", "u3"}

ServiceName(u) == "flserver-" \o u

\* a caller calls KubeflowPlugin.create_service(name)
CallCreateService ==
    /\ pc = "start"
    /\ \E u \in Uids, fault \in ApiFaults :
         LET r == create_service(services, ServiceName(u), fault)
         IN  services' = r.services /\ svc_result' = Outcome(r)
    /\ UNCHANGED <<readiness, polling, peer, composed_with>>
    /\ UNCHANGED <<fl_client, fl_server, server_wrapped, connectors,
                   node_enforce, pc, error, client_extra, server_extra,
                   sig_params, call_args, call_kwargs, graph, uid, status,
                   cancelled, runs>>

\* a caller calls KubeflowPlugin.delete_service(name)
CallDeleteService ==
    /\ pc = "start"
    /\ \E u \in Uids, fault \in ApiFaults :
         LET r == delete_service(services, ServiceName(u), fault)
         IN  services' = r.services /\ svc_result' = Outcome(r)
    /\ UNCHANGED <<readiness, polling, peer, composed_with>>
    /\ UNCHANGED <<fl_client, fl_server, server_wrapped, connectors,
                   node_enforce, pc, error, client_extra, server_extra,
                   sig_params, call_args, call_kwargs, graph, uid, status,
                   cancelled, runs>>

-----------------------------------------------------------------------------
(* One run of the composed graph.  create_run_from_pipeline_func hands the *)
(* pipeline function to the orchestrator, which calls it with one pipeline *)
(* parameter per parameter of its signature and executes the ops it        *)
(* creates: an op starts once every op it depends on has succeeded, and    *)
(* the exit handler's op starts once every other op is over.               *)

\* the phases in which an op is over; Skipped is the phase of an op that was
\* never started (is_run_finished counts it as terminal too)
Terminal == {"Succeeded", "Failed", "Skipped"}

\* the pipeline parameter passed for the i-th parameter of the signature
PipelineParam(parameters, i) == "{{pipelineparam:" \o parameters[i].name \o "}}"

OpNames(ops) == {ops[i].name : i \in 1..Len(ops)}

OpNamed(ops, n) == ops[CHOOSE i \in 1..Len(ops) : ops[i].name = n]

\* the ops whose outputs op consumes
InputsFrom(ops, op) ==
    {n \in OpNames(ops) : \E k \in DOMAIN op.args : op.args[k] = OutputOf(n)}

\* the ops that must have succeeded before op starts
Upstream(ops, op) == op.dependent_names \cup InputsFrom(ops, op)

\* the ops the exit handler's op waits for: the orchestrator runs it when
\* the rest of the graph is over
ExitScope(ops) == {n \in OpNames(ops) : ~OpNamed(ops, n).is_exit_handler}

\* a faulty variant of ExitHandlerReady: the op is an ordinary successor,
\* started when the ops before it have succeeded
ExitHandlerReadyOnSuccess(ops, st) ==
    \A n \in ExitScope(ops) : st[n] = "Succeeded"

\* a faulty variant of ExitHandlerReady: tear down once the server is done
ExitHandlerReadyOnServer(ops, st) ==
    \A n \in ExitScope(ops) :
      OpNamed(ops, n).func # "fl_client" => st[n] \in Terminal

ExitHandlerReady(ops, st) == \A n \in ExitScope(ops) : st[n] \in Terminal

\* a faulty variant of Resolve: the placeholder is left as it is

ResolveNothing(v, u) == v

\* "{{workflow.uid}}" is replaced by the run's uid when the op executes
Resolve(v, u) ==
    IF v = srv_name THEN "flserver-" \o u
    ELSE IF v = "fl-server-{{workflow.uid}}" THEN "fl-server-" \o u
    ELSE v

create_run_from_pipeline_func ==
    /\ pc = "composed"
    /\ LET args == [i \in 1..Len(sig_params) |-> PipelineParam(sig_params, i)]
           res == fl_pipeline_func(args, EmptyDict)
       IN  /\ call_args' = args
           /\ call_kwargs' = EmptyDict
           /\ error' = res.raised
           /\ graph' = res.ops
           /\ pc' = IF res.raised = NoError THEN "running" ELSE "invoke_error"
           /\ status' = [n \in OpNames(res.ops) |-> "Pending"]
           /\ runs' = [n \in OpNames(res.ops) |-> 0]
    /\ uid' = "u1"
    /\ UNCHANGED <<readiness, polling, peer, composed_with>>
    /\ UNCHANGED <<fl_client, fl_server, server_wrapped, connectors,
                   node_enforce, client_extra, server_extra, sig_params,
                   cancelled, services, svc_result>>

RunUnchanged ==
    UNCHANGED <<fl_client, fl_server, server_wrapped, connectors, node_enforce,
                pc, error, client_extra, server_extra, sig_params, call_args,
                call_kwargs, graph, uid, readiness, polling, peer,
                composed_with>>

\* the orchestrator starts an op of the graph
StartOp ==
    /\ pc = "running"
    /\ ~cancelled
    /\ \E n \in OpNames(graph) :
         /\ ~OpNamed(graph, n).is_exit_handler
         /\ status[n] = "Pending"
         /\ \A d \in Upstream(graph, OpNamed(graph, n)) : status[d] = "Succeeded"
         /\ status' = [status EXCEPT ![n] = "Running"]
         /\ runs' = [runs EXCEPT ![n] = @ + 1]
    /\ RunUnchanged
    /\ UNCHANGED <<cancelled, services, svc_result>>

\* an op that can no longer run is skipped: one it depends on did not
\* succeed, another op failed (the graph fails fast), or the run was cancelled
SkipOp ==
    /\ pc = "running"
    /\ \E n \in OpNames(graph) :
         /\ ~OpNamed(graph, n).is_exit_handler
         /\ status[n] = "Pending"
         /\ \/ cancelled
            \/ \E d \in OpNames(graph) : status[d] = "Failed"
            \/ \E d \in Upstream(graph, OpNamed(graph, n)) :
                 status[d] = "Skipped"
         /\ status' = [status EXCEPT ![n] = "Skipped"]
    /\ RunUnchanged
    /\ UNCHANGED <<cancelled, services, svc_result, runs>>

\* setup_links_func executes: KubeflowPlugin().create_service(name=name)
FinishSetup ==
    /\ pc = "running"
    /\ \E n \in OpNames(graph), fault \in ApiFaults :
         /\ OpNamed(graph, n).func = "setup_links_func"
         /\ status[n] = "Running"
         /\ LET r == create_service(services,
                                    Resolve(OpNamed(graph, n).args.name, uid),
                                    fault)
            IN  /\ services' = r.services
                /\ svc_result' = Outcome(r)
                /\ status' = [status EXCEPT ![n] =
                                IF r.raised = NoError THEN "Succeeded"
                                ELSE "Failed"]
    /\ RunUnchanged
    /\ UNCHANGED <<cancelled, runs>>

\* a server or client op ends, successfully or not
FinishTask ==
    /\ pc = "running"
    /\ \E n \in OpNames(graph), result \in {"Succeeded", "Failed"} :
         /\ OpNamed(graph, n).func \in {"fl_server", "fl_client"}
         /\ status[n] = "Running"
         /\ status' = [status EXCEPT ![n] = result]
    /\ RunUnchanged
    /\ UNCHANGED <<cancelled, services, svc_result, runs>>

\* the user terminates the run
Cancel ==
    /\ pc = "running"
    /\ ~cancelled
    /\ ~ExitHandlerReady(graph, status)
    /\ cancelled' = TRUE
    /\ RunUnchanged
    /\ UNCHANGED <<status, services, svc_result, runs>>

\* a running op of a cancelled run is stopped
StopOp ==
    /\ pc = "running"
    /\ cancelled
    /\ \E n \in OpNames(graph) :
         /\ ~OpNamed(graph, n).is_exit_handler
         /\ status[n] = "Running"
         /\ status' = [status EXCEPT ![n] = "Failed"]
    /\ RunUnchanged
    /\ UNCHANGED <<cancelled, services, svc_result, runs>>

\* the exit handler's op starts
StartExitHandler ==
    /\ pc = "running"
    /\ \E n \in OpNames(graph) :
         /\ OpNamed(graph, n).is_exit_handler
         /\ status[n] = "Pending"
         /\ ExitHandlerReady(graph, status)
         /\ status' = [status EXCEPT ![n] = "Running"]
         /\ runs' = [runs EXCEPT ![n] = @ + 1]
    /\ RunUnchanged
    /\ UNCHANGED <<cancelled, services, svc_result>>

\* release_links_func executes: KubeflowPlugin().delete_service(name=name)
FinishExitHandler ==
    /\ pc = "running"
    /\ \E n \in OpNames(graph), fault \in ApiFaults :
         /\ OpNamed(graph, n).func = "release_links_func"
         /\ status[n] = "Running"
         /\ LET r == delete_service(services,
                                    Resolve(OpNamed(graph, n).args.name, uid),
                                    fault)
            IN  /\ services' = r.services
                /\ svc_result' = Outcome(r)
                /\ status' = [status EXCEPT ![n] =
                                IF r.raised = NoError THEN "Succeeded"
                                ELSE "Failed"]
                /\ pc' = "finished"
    /\ UNCHANGED <<readiness, polling, peer, composed_with>>
    /\ UNCHANGED <<fl_client, fl_server, server_wrapped, connectors,
                   node_enforce, error, client_extra, server_extra, sig_params,
                   call_args, call_kwargs, graph, uid, cancelled, runs>>

-----------------------------------------------------------------------------
(* The callables and connector lists the model draws.                      *)

\* the default and the annotation a callable gives its parameters: the two
\* callables are written independently, so theirs differ
DefaultOf(role) == IF role = "client" THEN "0.1" ELSE "0.5"

AnnotationOf(role) == IF role = "client" THEN "float" ELSE "int"

ExtraNames(role) ==
    {"lr", "epochs"} \cup
    (IF role = "client" THEN {"number_of_iterations"} ELSE {"server_address"})

ExtraPool(role) ==
    {Param(n, POSITIONAL_OR_KEYWORD, Empty, Empty) : n \in ExtraNames(role)}
    \cup {Param(n, POSITIONAL_OR_KEYWORD, DefaultOf(role), AnnotationOf(role)) :
            n \in ExtraNames(role)}
    \cup {Param(n, KEYWORD_ONLY, Empty, AnnotationOf(role)) :
            n \in ExtraNames(role)}
    \cup {Param(n, k, Empty, AnnotationOf(role)) :
            n \in ExtraNames(role), k \in {VAR_POSITIONAL, VAR_KEYWORD}}

KindRank(k) ==
    CASE k = POSITIONAL_OR_KEYWORD -> 1
      [] k = VAR_POSITIONAL -> 2
      [] k = KEYWORD_ONLY -> 3
      [] k = VAR_KEYWORD -> 4

\* what Python accepts as the tail of a def's parameter list
IsParameterList(s) ==
    /\ IsInjective(Names(s))
    /\ \A i, j \in 1..Len(s) :
         i < j =>
           /\ KindRank(s[i].kind) <= KindRank(s[j].kind)
           /\ s[i].kind \in {VAR_POSITIONAL, VAR_KEYWORD} => s[i].kind # s[j].kind
           /\ ~(/\ s[i].kind = POSITIONAL_OR_KEYWORD
                /\ s[j].kind = POSITIONAL_OR_KEYWORD
                /\ s[i].default # Empty
                /\ s[j].default = Empty)

ExtraLists(role, n) ==
    {s \in [1..n -> ExtraPool(role)] : IsParameterList(s)}

ClientRequired ==
    <<Param("server_address", POSITIONAL_OR_KEYWORD, Empty, "str"),
      Param("local_data_connector", POSITIONAL_OR_KEYWORD, Empty, Empty)>>

ServerRequired ==
    <<Param("number_of_iterations", POSITIONAL_OR_KEYWORD, Empty, "int")>>

Links == {"s3://a", "s3://b"}

Regions == {Missing, "eu"}

ConnectorLists ==
    UNION {[1..n -> [link : Links, region : Regions]] : n \in 0..MaxConnectors}

NotComposed ==
    /\ pc = "start"
    /\ error = NoError
    /\ client_extra = <<>>
    /\ server_extra = <<>>
    /\ sig_params = <<>>
    /\ call_args = <<>>
    /\ call_kwargs = EmptyDict
    /\ graph = <<>>
    /\ composed_with = <<>>

NotSubmitted ==
    /\ uid = None
    /\ status = EmptyDict
    /\ cancelled = FALSE
    /\ services = {}
    /\ svc_result = NoCall
    /\ runs = EmptyDict
    /\ readiness = NotWaiting
    /\ polling = NotPolling
    /\ peer = NoPeer

\* any two callables, one connector
InitSignatures ==
    /\ \E nc \in 0..MaxExtras : \E ns \in 0..(MaxExtras - nc) :
         /\ fl_client \in {ClientRequired \o x : x \in ExtraLists("client", nc)}
         /\ fl_server \in {ServerRequired \o x : x \in ExtraLists("server", ns)}
    /\ server_wrapped = FALSE
    /\ connectors = <<[link |-> "s3://a", region |-> "eu"]>>
    /\ node_enforce = TRUE

\* any connector list, the callables fl_client(server_address,
\* local_data_connector, lr) and fl_server(number_of_iterations, epochs=...)
InitConnectors ==
    /\ fl_client = Append(ClientRequired,
                          Param("lr", POSITIONAL_OR_KEYWORD, Empty, "float"))
    /\ fl_server = Append(ServerRequired,
                          Param("epochs", POSITIONAL_OR_KEYWORD, "0.5", "int"))
    /\ server_wrapped \in BOOLEAN
    /\ connectors \in ConnectorLists
    /\ node_enforce \in BOOLEAN

Init == (InitSignatures \/ InitConnectors) /\ NotComposed /\ NotSubmitted

Next == create_fl_pipeline \/ Invoke

Spec == Init /\ [][Next]_vars

\* the service operations called directly
InitService ==
    /\ InitConnectors /\ NotComposed /\ NotSubmitted
    /\ connectors = <<>>
    /\ node_enforce
    /\ ~server_wrapped

NextService == CallCreateService \/ CallDeleteService

SpecService == InitService /\ [][NextService]_vars

\* one run of the graph composed from fl_client(server_address,
\* local_data_connector, lr) and fl_server(number_of_iterations, epochs=...),
\* in a namespace that may hold the service of another run
InitRun ==
    /\ InitConnectors /\ NotComposed
    /\ \A i \in 1..Len(connectors) : connectors[i].link = "s3://a"
    /\ node_enforce
    /\ ~server_wrapped
    /\ uid = None
    /\ status = EmptyDict
    /\ cancelled = FALSE
    /\ services \in {{}, {ServiceName("u2")}}
    /\ svc_result = NoCall
    /\ runs = EmptyDict
    /\ readiness = NotWaiting
    /\ polling = NotPolling
    /\ peer = NoPeer

NextRun ==
    \/ create_fl_pipeline
    \/ create_run_from_pipeline_func
    \/ StartOp
    \/ SkipOp
    \/ FinishSetup
    \/ FinishTask
    \/ Cancel
    \/ StopOp
    \/ StartExitHandler
    \/ FinishExitHandler

\* the steps of the orchestrator itself
Progress ==
    \/ StartOp
    \/ SkipOp
    \/ FinishSetup
    \/ FinishTask
    \/ StopOp
    \/ StartExitHandler
    \/ FinishExitHandler

SpecRun == InitRun /\ [][NextRun]_vars

-----------------------------------------------------------------------------
(* Properties of the composed graph and of the merged signature.           *)

IsOrdinary(p) == p.kind \in {POSITIONAL_OR_KEYWORD, KEYWORD_ONLY}

\* the names a callable declares beyond the required ones, variadic
\* parameters left out, in declaration order
RECURSIVE DeclaredExtras(_, _)
DeclaredExtras(sig, req) ==
    IF sig = <<>> THEN <<>>
    ELSE LET rest == DeclaredExtras(Tail(sig), req)
         IN  IF IsOrdinary(Head(sig)) /\ Head(sig).name \notin req
             THEN <<Head(sig).name>> \o rest
             ELSE rest

Count(s, x) == Cardinality({i \in 1..Len(s) : s[i] = x})

Composed == pc \in {"composed", "built", "invoke_error", "running", "finished"}

ClientOps == SelectSeq(graph, LAMBDA op : op.func = "fl_client")

OpsOf(f) == {i \in 1..Len(graph) : graph[i].func = f}

\* C4: for a non-empty connector list of length N the composed graph holds
\* exactly one SetupNode, one ServerNode, N ClientNodes (the i-th one made for
\* the i-th connector, each depending on the SetupNode) and one TeardownNode,
\* the exit handler whose scope holds the ServerNode and all N ClientNodes.
C4_GraphShape ==
    (pc = "built" /\ Len(connectors) >= 1) =>
      /\ Cardinality(OpsOf("setup_links_func")) = 1
      /\ Cardinality(OpsOf("fl_server")) = 1
      /\ Cardinality(OpsOf("release_links_func")) = 1
      /\ Len(ClientOps) = Len(connectors)
      /\ Len(graph) = Len(connectors) + 3
      /\ Cardinality(OpNames(graph)) = Len(graph)
      /\ \A i \in 1..Len(ClientOps) :
           /\ ClientOps[i].args.local_data_connector = connectors[i].link
           /\ \E j \in OpsOf("setup_links_func") :
                graph[j].name \in Upstream(graph, ClientOps[i])
      /\ \A i \in 1..Len(graph) :
           /\ graph[i].is_exit_handler <=> graph[i].func = "release_links_func"
           /\ graph[i].group = "exit_handler"
                <=> graph[i].func \in {"fl_server", "fl_client"}

C4_Witness ==
    /\ pc = "built"
    /\ Len(connectors) = 2
    /\ connectors[1].link # connectors[2].link
    /\ Len(ClientOps) = 2

\* C5: the merged signature is number_of_iterations, then the client's extras
\* in the client's declaration order, then the server's extras in the
\* server's declaration order, each name listed once, at its first occurrence.
C5_MergedOrder ==
    Composed =>
      LET merged == Names(sig_params)
          cat == DeclaredExtras(fl_client, client_req)
                 \o DeclaredExtras(fl_server, server_req)
      IN  /\ Len(merged) >= 1
          /\ merged[1] = "number_of_iterations"
          /\ Range(Tail(merged)) = Range(cat)
          /\ IsInjective(Tail(merged))
          /\ \A i, j \in 2..Len(merged) :
               i < j => IndexOf(cat, merged[i]) < IndexOf(cat, merged[j])

C5_Witness ==
    /\ pc = "composed"
    /\ DeclaredExtras(fl_client, client_req) = <<"lr", "epochs">>
    /\ DeclaredExtras(fl_server, server_req) = <<"lr">>
    /\ Names(sig_params) = <<"number_of_iterations", "lr", "epochs">>

\* C6: a name that both callables declare as an extra is listed exactly once
\* in the merged parameter list.
C6_CommonExtraOnce ==
    pc # "start" =>
      \A x \in Range(DeclaredExtras(fl_client, client_req))
               \cap Range(DeclaredExtras(fl_server, server_req)) :
        Count(Names(sig_params), x) = 1

C6_Witness ==
    /\ pc = "composed"
    /\ "lr" \in Range(DeclaredExtras(fl_client, client_req))
    /\ "lr" \in Range(DeclaredExtras(fl_server, server_req))
    /\ Count(Names(sig_params), "lr") = 1

\* the value the invocation binds to a parameter of the merged signature:
\* the keyword or positional argument given for it, else its default
BoundTo(x) ==
    LET i == IndexOf(Names(sig_params), x)
    IN  IF x \in DOMAIN call_kwargs THEN call_kwargs[x]
        ELSE IF i <= Len(call_args) THEN call_args[i]
        ELSE sig_params[i].default

Supplied(x) ==
    x \in DOMAIN call_kwargs \/ IndexOf(Names(sig_params), x) <= Len(call_args)

\* C7: the ServerNode is called with number_of_iterations and exactly the
\* extras the server declares, every ClientNode with exactly the extras the
\* client declares (beside server_address and local_data_connector), and each
\* extra carries the value bound to its name: the argument given, else the
\* default.
C7_Forwarding ==
    pc = "built" =>
      \A i \in 1..Len(graph) :
        /\ graph[i].func = "fl_server" =>
             /\ DOMAIN graph[i].args =
                  {"number_of_iterations"}
                  \cup Range(DeclaredExtras(fl_server, server_req))
             /\ \A x \in DOMAIN graph[i].args :
                  /\ graph[i].args[x] = BoundTo(x)
                  /\ graph[i].args[x] # Empty
        /\ graph[i].func = "fl_client" =>
             /\ DOMAIN graph[i].args =
                  client_req \cup Range(DeclaredExtras(fl_client, client_req))
             /\ \A x \in (DOMAIN graph[i].args) \ client_req :
                  /\ graph[i].args[x] = BoundTo(x)
                  /\ graph[i].args[x] # Empty

C7_Witness ==
    /\ pc = "built"
    /\ \E i, j \in 1..Len(graph) :
         /\ graph[i].func = "fl_server"
         /\ graph[j].func = "fl_client"
         /\ "lr" \in DOMAIN graph[i].args
         /\ "lr" \in DOMAIN graph[j].args
         /\ ~Supplied("lr")
         /\ graph[i].args.lr = "0.1"
         /\ graph[j].args.lr = "0.1"
         /\ "epochs" \in DOMAIN graph[i].args
         /\ "epochs" \notin DOMAIN graph[j].args
         /\ Supplied("epochs")

\* C8: with enforcement enabled every ClientNode carries the placement
\* constraint region = its own connector's region, the empty string when the
\* connector has none; with enforcement disabled no ClientNode carries a
\* placement constraint.
C8_Placement ==
    pc = "built" =>
      /\ Len(ClientOps) = Len(connectors)
      /\ \A i \in 1..Len(ClientOps) :
           IF node_enforce
           THEN /\ DOMAIN ClientOps[i].node_selector = {"region"}
                /\ connectors[i].region = Missing
                     => ClientOps[i].node_selector.region = ""
                /\ connectors[i].region # Missing
                     => ClientOps[i].node_selector.region = connectors[i].region
           ELSE DOMAIN ClientOps[i].node_selector = {}

C8_Witness ==
    /\ pc = "built"
    /\ node_enforce
    /\ Len(connectors) = 2
    /\ connectors[1].region = Missing
    /\ connectors[2].region = "eu"
    /\ ClientOps[1].node_selector.region = ""
    /\ ClientOps[2].node_selector.region = "eu"

-----------------------------------------------------------------------------
(* Properties of a run of the composed graph.                              *)

Submitted == pc \in {"running", "finished"}

ExitOps == {n \in OpNames(graph) : OpNamed(graph, n).is_exit_handler}

TaskOps ==
    {n \in OpNames(graph) : OpNamed(graph, n).func \in {"fl_server", "fl_client"}}

SetupOps == {n \in OpNames(graph) : OpNamed(graph, n).func = "setup_links_func"}

Started(n) == runs[n] > 0

\* C1: in every run the TeardownNode (release_links) executes exactly once,
\* whether the ServerNode and the ClientNodes succeed, fail or are cancelled:
\* it is never started twice, and the run cannot come to rest before it ran.
C1_TeardownExactlyOnce ==
    Submitted =>
      /\ Cardinality(ExitOps) = 1
      /\ \A n \in ExitOps :
           /\ runs[n] <= 1
           /\ status[n] = "Pending" <=> runs[n] = 0
           /\ pc = "finished" => runs[n] = 1 /\ status[n] \in Terminal
      /\ pc = "running" => ENABLED Progress

C1_Witness ==
    /\ pc = "finished"
    /\ cancelled
    /\ runs["release_links"] = 1
    /\ status["fl_server"] = "Failed"
    /\ \E n \in TaskOps : status[n] = "Succeeded"
    /\ \E n \in TaskOps : status[n] = "Skipped"

\* C2: neither the ServerNode nor a ClientNode starts before the SetupNode
\* has completed, and the SetupNode is all they wait for: no order is imposed
\* between the ServerNode and the ClientNodes or among the ClientNodes.
C2_SetupFirst ==
    Submitted =>
      \A n \in TaskOps :
        /\ Started(n) => \A s \in SetupOps : status[s] = "Succeeded"
        /\ Upstream(graph, OpNamed(graph, n)) = SetupOps

C2_Witness ==
    /\ pc = "running"
    /\ status["setup_links"] = "Succeeded"
    /\ status["fl_server"] = "Pending"
    /\ "fl_client-2" \in DOMAIN status
    /\ status["fl_client-2"] = "Succeeded"
    /\ status["fl_client-1"] = "Pending"

-----------------------------------------------------------------------------
(* Properties of create_service and delete_service.                        *)

\* C9: create_service is idempotent against "already exists": called when a
\* service of that name exists, it completes and returns the name; only other
\* failures of the orchestrator are reported as an error.
C9_CreateIdempotent ==
    (svc_result.op = "create_service" /\ svc_result.api = "ApiException(409)")
      => (svc_result.raised = NoError /\ svc_result.returned = svc_result.name)

\* C10: delete_service never raises past its boundary: whatever fails while
\* the service record is deleted, the call logs it and returns normally.
C10_DeleteNeverRaises ==
    svc_result.op = "delete_service" =>
      /\ svc_result.raised = NoError
      /\ svc_result.api # NoError => svc_result.logged

-----------------------------------------------------------------------------
(* get_served_model_url: waiting for a served model's endpoint.            *)

\* @retry(wait=wait_exponential(multiplier=2, min=1, max=10),
\*        stop=stop_after_attempt(30), reraise=True)
multiplier == 2
min == 1
max == 10
max_attempt_number == 30

Smaller(a, b) == IF a <= b THEN a ELSE b

Larger(a, b) == IF a >= b THEN a ELSE b

\* a faulty variant of wait_exponential: the upper limit is not applied

wait_exponential_unlimited(attempt_number) ==
    Larger(Larger(0, min), multiplier * 2 ^ (attempt_number - 1))

\* the seconds slept after the attempt of that number failed
wait_exponential(attempt_number) ==
    Larger(Larger(0, min),
           Smaller(multiplier * 2 ^ (attempt_number - 1), max))

\* a faulty variant of stop_after_attempt: one attempt too many

stop_after_attempt_exceeded(attempt_number) ==
    attempt_number > max_attempt_number

\* whether the attempt of that number is the last one
stop_after_attempt(attempt_number) == attempt_number >= max_attempt_number

\* what kserve_client.is_isvc_ready can answer to one probe
Probes == {"True", "False", "ApiException"}

\* a faulty variant of assert_isvc_created: the assertion is not evaluated

assert_isvc_created_unchecked(isvc_name, probe) ==
    IF probe \in {"True", "False"} THEN NoError ELSE probe

\* the exception one attempt ends with (NoError when it returns)
assert_isvc_created(isvc_name, probe) ==
    IF probe = "True" THEN NoError
    ELSE IF probe = "False"
         THEN "AssertionError: Failed to create Inference Service "
                \o isvc_name \o "."
         ELSE probe

IsvcNames == {"isvc-a", "isvc-b"}

\* the addresses a ready endpoint's record can carry
Urls == {"http://isvc.ns.svc.cluster.local", "http://isvc.example.com"}

\* the call begins: the first attempt is due
get_served_model_url ==
    /\ readiness.pc = "idle"
    /\ \E isvc_name \in IsvcNames :
         readiness' = [NotWaiting EXCEPT !.pc = "retrying",
                                         !.name = isvc_name,
                                         !.attempt_number = 1]
    /\ UNCHANGED <<polling, peer, composed_with>>
    /\ UNCHANGED <<fl_client, fl_server, server_wrapped, connectors,
                   node_enforce, pc, error, client_extra, server_extra,
                   sig_params, call_args, call_kwargs, graph, uid, status,
                   cancelled, services, svc_result, runs>>

\* a faulty variant of retry: only a failed assertion is retried

retry_assertions_only ==
    /\ readiness.pc = "retrying"
    /\ \E probe \in Probes :
         LET n == readiness.attempt_number
             e == assert_isvc_created(readiness.name, probe)
             probed == [readiness EXCEPT !.probes = @ + 1,
                                         !.outcome = probe,
                                         !.not_ready =
                                            IF probe = "False" THEN @ + 1
                                            ELSE @]
         IN  readiness' =
               IF e = NoError
               THEN [probed EXCEPT !.pc = "ready"]
               ELSE IF stop_after_attempt(n) \/ probe # "False"
                    THEN [probed EXCEPT !.pc = "raised", !.error = e]
                    ELSE [probed EXCEPT
                            !.sleeps = Append(@, wait_exponential(n)),
                            !.attempt_number = n + 1]
    /\ UNCHANGED <<polling, peer, composed_with>>
    /\ UNCHANGED <<fl_client, fl_server, server_wrapped, connectors,
                   node_enforce, pc, error, client_extra, server_extra,
                   sig_params, call_args, call_kwargs, graph, uid, status,
                   cancelled, services, svc_result, runs>>

\* one turn of the retry loop: an attempt, then return, re-raise or sleep
retry ==
    /\ readiness.pc = "retrying"
    /\ \E probe \in Probes :
         LET n == readiness.attempt_number
             e == assert_isvc_created(readiness.name, probe)
             probed == [readiness EXCEPT !.probes = @ + 1,
                                         !.outcome = probe,
                                         !.not_ready =
                                            IF probe = "False" THEN @ + 1
                                            ELSE @]
         IN  readiness' =
               IF e = NoError
               THEN [probed EXCEPT !.pc = "ready"]
               ELSE IF stop_after_attempt(n)
                    THEN [probed EXCEPT !.pc = "raised", !.error = e]
                    ELSE [probed EXCEPT
                            !.sleeps = Append(@, wait_exponential(n)),
                            !.attempt_number = n + 1]
    /\ UNCHANGED <<polling, peer, composed_with>>
    /\ UNCHANGED <<fl_client, fl_server, server_wrapped, connectors,
                   node_enforce, pc, error, client_extra, server_extra,
                   sig_params, call_args, call_kwargs, graph, uid, status,
                   cancelled, services, svc_result, runs>>

\* the record of the ready endpoint is fetched and its address returned
kclient_get ==
    /\ readiness.pc = "ready"
    /\ \E url \in Urls :
         readiness' = [readiness EXCEPT !.pc = "returned",
                                        !.address = url,
                                        !.result = url]
    /\ UNCHANGED <<polling, peer, composed_with>>
    /\ UNCHANGED <<fl_client, fl_server, server_wrapped, connectors,
                   node_enforce, pc, error, client_extra, server_extra,
                   sig_params, call_args, call_kwargs, graph, uid, status,
                   cancelled, services, svc_result, runs>>

InitReady == InitService

NextReady == get_served_model_url \/ retry \/ kclient_get

SpecReady == InitReady /\ [][NextReady]_vars

-----------------------------------------------------------------------------
(* Properties of get_served_model_url.                                     *)

\* C11: the waits between consecutive probes grow exponentially up to a
\* ceiling of 10 seconds and never shrink: the wait after the a-th failed
\* probe is 2, 4, 8 seconds for a = 1, 2, 3 and 10 seconds from the fourth
\* on (twice the claimed 1, 2, 4, then 8 replaced by the ceiling one probe
\* earlier).
C11_Backoff ==
    \A a \in 1..Len(readiness.sleeps) :
      /\ readiness.sleeps[a] =
           (IF a = 1 THEN 2 ELSE IF a = 2 THEN 4 ELSE IF a = 3 THEN 8 ELSE 10)
      /\ readiness.sleeps[a] <= 10
      /\ a > 1 => readiness.sleeps[a - 1] <= readiness.sleeps[a]

\* C11 as stated: the wait after the a-th failed probe is min(2^(a-1), 10)
\* seconds, i.e. 1, 2, 4, 8, 10, 10, ...
C11_AsStated ==
    \A a \in 1..Len(readiness.sleeps) :
      readiness.sleeps[a] = Smaller(2 ^ (a - 1), 10)

C11_Witness ==
    /\ readiness.pc = "retrying"
    /\ Len(readiness.sleeps) = 6

C13_GiveUpAfter30 ==
    /\ readiness.probes <= 30
    /\ readiness.pc = "retrying" =>
         (readiness.probes = readiness.attempt_number - 1 /\ ENABLED retry)
    /\ readiness.pc = "raised" =>
         /\ readiness.probes = 30
         /\ Len(readiness.sleeps) = 29
         /\ readiness.error # NoError
         /\ readiness.not_ready = 30 =>
              readiness.error =
                "AssertionError: Failed to create Inference Service "
                  \o readiness.name \o "."

C13_Witness ==
    /\ readiness.pc = "raised"
    /\ readiness.not_ready = 30
    /\ readiness.name = "isvc-b"

-----------------------------------------------------------------------------
(* cogflow.create_run_from_pipeline_func: waiting for a submitted run.     *)

\* most status queries answered while the run is unfinished
MaxQueries == 6

\* the statuses the orchestrator reports for a run; the last four are final
TerminalRunStatuses == {"Succeeded", "Failed", "Skipped", "Error"}

RunStatuses == {None, "Pending", "Running", "Terminating"}
                 \cup TerminalRunStatuses

RunIds == {"r1", "r2"}

\* what can fail while the orchestrator's client is asked for a run
RunFaults == {NoError, "ApiException"}

\* the interval of plugin_config the loop sleeps for
TIMER_IN_SEC == "plugin_config.TIMER_IN_SEC"

\* a faulty variant of run_details: the result does not carry the run's id

run_details_anonymous(run_id) == "RunPipelineResult(run_id=?)"

\* what the submission returned
run_details(run_id) == "RunPipelineResult(run_id=" \o run_id \o ")"

\* a faulty variant of get_run: a failed run is reported by raising

get_run_raising_on_failed(run_status, fault) ==
    IF fault # NoError THEN [raised |-> fault, status |-> None]
    ELSE IF run_status = "Failed"
         THEN [raised |-> "RuntimeError", status |-> None]
         ELSE [raised |-> NoError, status |-> run_status]

\* self.client().get_run(run_id).run.status
get_run(run_status, fault) ==
    IF fault # NoError THEN [raised |-> fault, status |-> None]
    ELSE [raised |-> NoError, status |-> run_status]

\* a faulty variant of is_run_finished: "Skipped" is missing from the list

is_run_finished_but_skipped(run_status) ==
    run_status \in {"Succeeded", "Failed", "Error"}

\* a faulty variant of is_run_finished: "Error" is missing from the list

is_run_finished_but_error(run_status) ==
    run_status \in {"Succeeded", "Failed", "Skipped"}

is_run_finished(run_status) ==
    run_status \in {"Succeeded", "Failed", "Skipped", "Error"}

get_run_status(run_status) == run_status

\* the loop's bookkeeping of one query and its answer
Queried(p, answer) ==
    [p EXCEPT !.queries = @ + 1,
              !.first_terminal =
                 IF @ = 0 /\ answer.status \in TerminalRunStatuses
                 THEN p.queries + 1 ELSE @,
              !.faulted = @ \/ answer.raised # NoError]

\* the model follows an unfinished run for MaxQueries queries only, and a
\* finished one for the two queries a turn of the loop makes
Followed ==
    \/ polling.queries < MaxQueries
    \/ /\ polling.run_status \in TerminalRunStatuses
       /\ polling.queries < MaxQueries + 2

PollUnchanged ==
    UNCHANGED <<fl_client, fl_server, server_wrapped, connectors, node_enforce,
                pc, error, client_extra, server_extra, sig_params, call_args,
                call_kwargs, graph, uid, status, cancelled, services,
                svc_result, runs, readiness, peer, composed_with>>

\* the run was submitted and run_details returned to the wrapper
SubmitRun ==
    /\ polling.pc = "idle"
    /\ \E run_id \in RunIds :
         polling' = [NotPolling EXCEPT !.pc = "while", !.run_id = run_id]
    /\ PollUnchanged

\* the orchestrator moves an unfinished run to another status
OrchestratorStep ==
    /\ polling.pc \in {"while", "body"}
    /\ polling.run_status \notin TerminalRunStatuses
    /\ \E s \in RunStatuses \ {polling.run_status} :
         polling' = [polling EXCEPT !.run_status = s]
    /\ PollUnchanged

\* while not KubeflowPlugin().is_run_finished(run_details.run_id), and the
\* return that follows the loop
WhileNotFinished ==
    /\ polling.pc = "while"
    /\ Followed
    /\ \E fault \in RunFaults :
         LET answer == get_run(polling.run_status, fault)
             p == Queried(polling, answer)
         IN  polling' =
               IF answer.raised # NoError
               THEN [p EXCEPT !.pc = "raised", !.error = answer.raised]
               ELSE IF is_run_finished(answer.status)
                    THEN [p EXCEPT !.pc = "returned",
                                   !.seen = answer.status,
                                   !.result = run_details(p.run_id)]
                    ELSE [p EXCEPT !.pc = "body", !.seen = answer.status]
    /\ PollUnchanged

\* the body of the loop: get_run_status, print, time.sleep
LoopBody ==
    /\ polling.pc = "body"
    /\ Followed
    /\ \E fault \in RunFaults :
         LET answer == get_run(polling.run_status, fault)
             p == Queried(polling, answer)
         IN  polling' =
               IF answer.raised # NoError
               THEN [p EXCEPT !.pc = "raised", !.error = answer.raised]
               ELSE [p EXCEPT !.pc = "while",
                              !.printed = get_run_status(answer.status),
                              !.sleeps = Append(@, TIMER_IN_SEC)]
    /\ PollUnchanged

InitPoll == InitService

NextPoll == SubmitRun \/ OrchestratorStep \/ WhileNotFinished \/ LoopBody

SpecPoll == InitPoll /\ [][NextPoll]_vars

\* the caller's process keeps running: a due query is made
SpecPollFair ==
    SpecPoll /\ WF_vars(WhileNotFinished) /\ WF_vars(LoopBody)

-----------------------------------------------------------------------------
(* Properties of cogflow.create_run_from_pipeline_func.                    *)

\* C14: the run poller stops polling exactly when the status it observes is
\* one of Succeeded, Failed, Skipped, Error; on every other status it goes on
\* to the body of its loop and polls again.
C14_StopsOnTerminal ==
    /\ polling.pc = "returned" =>
         polling.seen \in {"Succeeded", "Failed", "Skipped", "Error"}
    /\ polling.pc = "body" =>
         polling.seen \notin {"Succeeded", "Failed", "Skipped", "Error"}
    /\ (polling.pc = "while" /\ polling.queries > 0 /\ ~polling.faulted) =>
         polling.seen \notin {"Succeeded", "Failed", "Skipped", "Error"}

C14_Witness ==
    /\ polling.pc = "returned"
    /\ polling.seen = "Skipped"
    /\ Len(polling.sleeps) = 2

\* C15: when the first k status queries are answered with a non-terminal
\* status and the next one with a terminal status, the poller returns after
\* exactly k+1 queries, with a sleep between each consecutive pair of queries
\* (k sleeps), each of the one configured interval.
C15_QueriesAndSleeps ==
    polling.pc = "returned" =>
      /\ polling.queries = polling.first_terminal
      /\ Len(polling.sleeps) = polling.first_terminal - 1
      /\ \A i \in 1..Len(polling.sleeps) :
           polling.sleeps[i] = "plugin_config.TIMER_IN_SEC"

C18_NoCap ==
    /\ polling.pc = "returned" =>
         (polling.seen \in TerminalRunStatuses
            /\ polling.seen = polling.run_status)
    /\ polling.pc = "raised" => polling.faulted

-----------------------------------------------------------------------------
(* Two runs of the graph at once.  The second run is followed through the  *)
(* two ops that touch the namespace's services: its setup_links and its    *)
(* release_links, executed with that run's own uid.                        *)

PeerUnchanged ==
    UNCHANGED <<fl_client, fl_server, server_wrapped, connectors, node_enforce,
                pc, error, client_extra, server_extra, sig_params, call_args,
                call_kwargs, graph, uid, status, cancelled, svc_result, runs,
                readiness, polling, composed_with>>

\* the name argument of the graph's op of that function, in the run of uid u
NameArgument(func, u) ==
    LET n == CHOOSE m \in OpNames(graph) : OpNamed(graph, m).func = func
    IN  Resolve(OpNamed(graph, n).args.name, u)

\* the graph is submitted a second time: the orchestrator gives the new run
\* a uid of its own
PeerSubmit ==
    /\ pc \in {"running", "finished"}
    /\ peer.phase = "none"
    /\ \E u \in Uids \ {uid} : peer' = [uid |-> u, phase |-> "Pending"]
    /\ UNCHANGED services
    /\ PeerUnchanged

\* the second run's setup_links_func executes
PeerSetup ==
    /\ peer.phase = "Pending"
    /\ \E fault \in ApiFaults :
         LET r == create_service(services,
                                 NameArgument("setup_links_func", peer.uid),
                                 fault)
         IN  /\ services' = r.services
             /\ peer' = [peer EXCEPT !.phase =
                           IF r.raised = NoError THEN "Serving" ELSE "Failed"]
    /\ PeerUnchanged

\* the second run's release_links_func executes
PeerTeardown ==
    /\ peer.phase \in {"Serving", "Failed"}
    /\ \E fault \in ApiFaults :
         LET r == delete_service(services,
                                 NameArgument("release_links_func", peer.uid),
                                 fault)
         IN  /\ services' = r.services
             /\ peer' = [peer EXCEPT !.phase = "Released"]
    /\ PeerUnchanged

InitRuns == InitRun /\ services = {}

NextRuns == NextRun \/ PeerSubmit \/ PeerSetup \/ PeerTeardown

SpecRuns == InitRuns /\ [][NextRuns]_vars

\* C19: two runs of the graph that execute at once have distinct uids, so
\* their endpoint names "flserver-<uid>" differ; in each run release_links is
\* called with the name setup_links was called with; and a run's endpoint
\* stays in the namespace from its own setup to its own teardown, whatever
\* the other run's teardown does.
C19_OwnEndpoint ==
    (pc \in {"running", "finished"} /\ peer.phase # "none") =>
      /\ uid # peer.uid
      /\ NameArgument("setup_links_func", uid) = "flserver-" \o uid
      /\ NameArgument("setup_links_func", peer.uid) = "flserver-" \o peer.uid
      /\ NameArgument("setup_links_func", uid)
           # NameArgument("setup_links_func", peer.uid)
      /\ \A u \in {uid, peer.uid} :
           NameArgument("release_links_func", u)
             = NameArgument("setup_links_func", u)
      /\ peer.phase = "Serving" => ("flserver-" \o peer.uid) \in services
      /\ \A n \in SetupOps, e \in ExitOps :
           (status[n] = "Succeeded" /\ status[e] \in {"Pending", "Running"})
             => ("flserver-" \o uid) \in services

C19_Witness ==
    /\ pc = "finished"
    /\ svc_result.op = "delete_service"
    /\ svc_result.api = NoError
    /\ peer.phase = "Serving"

-----------------------------------------------------------------------------
(* A run whose endpoint cannot be created.                                 *)

\* C20: when create_service fails in setup_links, the call raises, the op
\* fails, and neither fl_server nor any fl_client is ever started in the run.
C20_SetupFailureAborts ==
    pc \in {"running", "finished"} =>
      \A n \in SetupOps :
        /\ (svc_result.op = "create_service" /\ svc_result.api # NoError) =>
             (svc_result.raised # NoError /\ status[n] = "Failed")
        /\ status[n] = "Failed" =>
             \A m \in TaskOps :
               runs[m] = 0 /\ status[m] \in {"Pending", "Skipped"}

C20_Witness ==
    /\ pc = "finished"
    /\ Len(connectors) = 2
    /\ \E n \in SetupOps : status[n] = "Failed" /\ runs[n] = 1
    /\ \A m \in TaskOps : status[m] = "Skipped"

-----------------------------------------------------------------------------
(* More properties of the merged signature.                                *)

\* the ordinary parameters the two callables declare
OrdinaryDeclarations ==
    {p \in Range(fl_client) \cup Range(fl_server) : IsOrdinary(p)}

\* the merged parameter a declaration gives: its name, default and annotation
Carries(merged, p) ==
    /\ merged.name = p.name
    /\ merged.default = p.default
    /\ merged.annotation = (IF p.annotation = Empty THEN None ELSE p.annotation)

\* C21: variadic parameters are skipped entirely by the merger: every
\* parameter of the merged signature after number_of_iterations has the name,
\* the default and the annotation of an ordinary parameter that the client or
\* the server declares, and no argument of an op of the graph is named after
\* a parameter that is declared as variadic only.
C21_VariadicsSkipped ==
    /\ pc # "start" =>
         \A i \in 2..Len(sig_params) :
           \E p \in OrdinaryDeclarations : Carries(sig_params[i], p)
    /\ pc = "built" =>
         \A i \in 1..Len(graph) :
           graph[i].func \in {"fl_server", "fl_client"} =>
             DOMAIN graph[i].args \subseteq
               client_req \cup server_req
                 \cup {p.name : p \in OrdinaryDeclarations}

\* the names both callables declare as extras
CommonExtras ==
    Range(DeclaredExtras(fl_client, client_req))
      \cap Range(DeclaredExtras(fl_server, server_req))

\* the parameter of that name in a callable's parameter list
Declaration(sig, x) == sig[IndexOf(Names(sig), x)]

\* a parameter without default after one with a default
DefaultsOutOfOrder(parameters) ==
    \E i, j \in 1..Len(parameters) :
      i < j /\ parameters[i].default # Empty /\ parameters[j].default = Empty

\* C22: a name that both callables declare as an extra is merged with the
\* default and the annotation of the client's declaration, which is the first
\* seen in the scan (client extras before server extras), also when the
\* server's declaration differs; the difference itself is no error: when
\* composition raises, the merged list has a parameter without default after
\* one with a default, or the client declares number_of_iterations.
C22_FirstSeenWins ==
    pc # "start" =>
      /\ \A x \in CommonExtras :
           Carries(sig_params[IndexOf(Names(sig_params), x)],
                   Declaration(fl_client, x))
      /\ pc = "compose_error" =>
           \/ DefaultsOutOfOrder(sig_params)
           \/ "number_of_iterations" \in Range(DeclaredExtras(fl_client, client_req))

C22_Witness ==
    /\ pc = "composed"
    /\ "lr" \in CommonExtras
    /\ Declaration(fl_client, "lr").default = "0.1"
    /\ Declaration(fl_server, "lr").default = "0.5"
    /\ Declaration(fl_server, "lr").annotation = "int"
    /\ sig_params[2] = Param("lr", POSITIONAL_OR_KEYWORD, "0.1", "float")

\* C23: whatever the two callables declare, number_of_iterations is listed
\* exactly once in the merged parameter list, as its first parameter and
\* without a default, and the list makes a signature.
C23_IterationsOnceFirst ==
    pc # "start" =>
      /\ Count(Names(sig_params), "number_of_iterations") = 1
      /\ sig_params[1].name = "number_of_iterations"
      /\ sig_params[1].default = Empty
      /\ error # "ValueError: duplicate parameter name"

\* C25: the merged parameter list of two callables with valid parameter lists
\* is a valid signature: no parameter without a default follows one with a
\* default, and create_fl_pipeline does not raise for that reason.
C25_MergedSignatureValid ==
    pc # "start" =>
      /\ ~DefaultsOutOfOrder(sig_params)
      /\ error # "ValueError: non-default argument follows default argument"

\* C26: the client's own declarations never make server_address or
\* local_data_connector a pipeline input: such a name is in the merged
\* signature exactly when the server declares a parameter of that name as one
\* of its extras; and every client op gets the setup op's output as
\* server_address and its connector's link as local_data_connector, never
\* a pipeline input.
C26_RequiredNamesOnlyFromServer ==
    /\ pc # "start" =>
         /\ client_req \cap Range(client_extra) = {}
         /\ \A x \in client_req :
              x \in Range(Names(sig_params))
                <=> x \in Range(DeclaredExtras(fl_server, server_req))
    /\ pc = "built" =>
         \A i \in 1..Len(ClientOps) :
           /\ ClientOps[i].args.server_address = "{{setup_links.output}}"
           /\ ClientOps[i].args.local_data_connector = connectors[i].link

\* C26 as stated: no name of the client-required set is in the merged
\* signature.
C26_AsStated ==
    pc # "start" => client_req \cap Range(Names(sig_params)) = {}

C26_Witness ==
    /\ pc = "built"
    /\ "server_address" \in Range(Names(sig_params))
    /\ Len(ClientOps) = 1
    /\ \E i \in OpsOf("fl_server") : "server_address" \in DOMAIN graph[i].args

\* C24: in the composed graph the server op's pod label "app" is the name
\* given to the setup op (the value the created service selects pods on), in
\* every run, also when fl_server was built by create_fl_component_from_func
\* and so came with an "app" label of its own.
C24_ServerLabel ==
    pc = "built" =>
      \A i \in OpsOf("fl_server"), j \in OpsOf("setup_links_func") :
        /\ "app" \in DOMAIN graph[i].pod_labels
        /\ graph[i].pod_labels["app"] = graph[j].args.name
        /\ \A u \in Uids :
             Resolve(graph[i].pod_labels["app"], u) = "flserver-" \o u

C24_Witness ==
    /\ pc = "built"
    /\ server_wrapped
    /\ \E i \in OpsOf("fl_server") :
         graph[i].pod_labels["app"] = "flserver-{{workflow.uid}}"

-----------------------------------------------------------------------------
(* More properties of the two waiting loops.                               *)

\* C27: a probe that raises is treated like a probe that answers not ready:
\* it uses up one attempt and is followed by the backoff wait and the next
\* probe; the call raises only after its 30th attempt failed, and then with
\* the failure of that last attempt.
C27_ErrorsAreRetried ==
    /\ (readiness.pc = "retrying" /\ readiness.outcome = "ApiException") =>
         /\ readiness.probes < 30
         /\ readiness.attempt_number = readiness.probes + 1
         /\ Len(readiness.sleeps) = readiness.probes
         /\ readiness.sleeps[readiness.probes] =
              (IF readiness.probes = 1 THEN 2
               ELSE IF readiness.probes = 2 THEN 4
               ELSE IF readiness.probes = 3 THEN 8 ELSE 10)
    /\ readiness.pc = "raised" =>
         /\ readiness.probes = 30
         /\ readiness.error =
              (IF readiness.outcome = "ApiException" THEN "ApiException"
               ELSE "AssertionError: Failed to create Inference Service "
                      \o readiness.name \o ".")

C27_Witness ==
    /\ readiness.pc = "raised"
    /\ readiness.error = "ApiException"
    /\ readiness.not_ready = 29

\* C28: in every turn of the poller's loop the status reported is the status
\* the loop test decided on, so a terminal status is never reported from
\* inside the loop, and once a query was answered with a terminal status the
\* poller neither sleeps nor polls again.
C28_ReportsDecidingStatus ==
    /\ (polling.pc = "while" /\ Len(polling.sleeps) > 0) =>
         polling.printed = polling.seen
    /\ polling.printed \notin {"Succeeded", "Failed", "Skipped", "Error"}
    /\ polling.first_terminal > 0 => polling.pc \notin {"while", "body"}

-----------------------------------------------------------------------------
(* More properties of a run.                                               *)

\* C29: when the setup op fails, the exit handler's op is still executed,
\* exactly once, before the run ends, and its delete_service of the endpoint
\* that was never created returns without raising.
C29_TeardownAfterFailedSetup ==
    pc \in {"running", "finished"} =>
      \A n \in SetupOps, e \in ExitOps :
        status[n] = "Failed" =>
          /\ runs[e] <= 1
          /\ pc = "finished" =>
               /\ runs[e] = 1
               /\ svc_result.op = "delete_service"
               /\ svc_result.raised = NoError
               /\ status[e] = "Succeeded"

-----------------------------------------------------------------------------
(* The caller's connector list after composition.                          *)

\* the caller appends a connector to its list, or removes one from it,
\* between create_fl_pipeline and the invocation of the pipeline function
ChangeConnectors ==
    /\ pc = "composed"
    /\ \/ /\ Len(connectors) < MaxConnectors
          /\ \E c \in [link : Links, region : Regions] :
               connectors' = Append(connectors, c)
       \/ \E i \in 1..Len(connectors) :
            connectors' = SubSeq(connectors, 1, i - 1)
                            \o SubSeq(connectors, i + 1, Len(connectors))
    /\ UNCHANGED <<fl_client, fl_server, server_wrapped, node_enforce, pc,
                   error, client_extra, server_extra, sig_params, call_args,
                   call_kwargs, graph, uid, status, cancelled, services,
                   svc_result, runs, readiness, polling, peer, composed_with>>

InitCaller == InitConnectors /\ NotComposed /\ NotSubmitted

NextCaller == create_fl_pipeline \/ ChangeConnectors \/ Invoke

SpecCaller == InitCaller /\ [][NextCaller]_vars

\* C30: the fan-out is fixed by the connector list as it was when
\* create_fl_pipeline was called: whatever the caller appends to or removes
\* from its list afterwards, an invocation of the pipeline function creates
\* exactly the client ops of the original list, in the original order.
C30_FanOutFixedAtComposition ==
    pc = "built" =>
      /\ Len(ClientOps) = Len(composed_with)
      /\ \A i \in 1..Len(ClientOps) :
           /\ ClientOps[i].args.local_data_connector = composed_with[i].link
           /\ ClientOps[i].display_name
                = "client:" \o RegionOf(composed_with[i])

====
